---- MODULE Spec2Model ----
(***************************************************************************)
(* Model of sandbox-rs: LinuxCommandExecutor::execute (src/src/lib.rs).    *)
(* One call of execute is followed step by step: creation of the temporary *)
(* directory, one loop iteration per listed file (strip_prefix,            *)
(* create_dir_all, copy), the launch of the child process and the          *)
(* classification of its exit status.  The host filesystem is a set of     *)
(* directories and a map from file paths to byte sequences; a path is the  *)
(* sequence of its components, as std::path::Path compares them.           *)
(***************************************************************************)
EXTENDS Integers, Sequences, FiniteSets, TLC

VARIABLES pc, command, files, working_dir, i, dirs, fsFiles,
          staged, written, launched, out, printed, result

vars == <<pc, command, files, working_dir, i, dirs, fsFiles,
          staged, written, launched, out, printed, result>>

\* ---------------------------------------------------------------- bounds
MaxFiles == 2

\* ------------------------------------------------------------ environment
\* The directory TempDir::new() creates (its name is fresh on the host).
Sandbox == <<"tmp", "sb">>

HostDirs == {<<>>, <<"work">>, <<"work", "d">>, <<"tmp">>}

HostFiles ==
  (<<"work", "f">> :> <<104>>) @@ (<<"work", "d", "g">> :> <<103>>)
    @@ (<<"secret">> :> <<115>>)

WorkDirs == {<<"work">>, <<"work", "d">>}

FilePaths ==
  { <<"work", "f">>, <<"work", "d", "g">>, <<"secret">>,
    <<"work", "..", "secret">>, <<"work", "..", "work", "f">>,
    <<"work", "d", "..", "f">>, <<"work", "missing">>, <<"work", "d">> }

Commands ==
  { <<>>, <<"cat", "/work/f">>, <<"cat", "f">>, <<"cat", "d/g">>,
    <<"false">>, <<"nosuchprog">>, <<"prog">> }

ProgOutputs == {<<>>, <<65>>, <<255>>}

ReplacementChar == 65533

\* "Command failed: "
CommandFailedPrefix ==
  <<67, 111, 109, 109, 97, 110, 100, 32, 102, 97, 105, 108, 101, 100, 58, 32>>

\* "cat: No such file or directory" abbreviated to the bytes of "No"
CatError == <<78, 111>>

\* ------------------------------------------------------------------ paths
Front(s) == SubSeq(s, 1, Len(s) - 1)

Last(s) == s[Len(s)]

Range(s) == {s[k] : k \in 1..Len(s)}

IsPrefix(a, b) == Len(a) <= Len(b) /\ SubSeq(b, 1, Len(a)) = a

Parent(p) == IF p = <<>> THEN <<>> ELSE Front(p)

\* Path::strip_prefix: component-wise, `..` components are kept as they are.
StripPrefix(path, base) ==
  IF IsPrefix(base, path)
  THEN [ok |-> TRUE, rel |-> SubSeq(path, Len(base) + 1, Len(path))]
  ELSE [ok |-> FALSE, rel |-> <<>>]

\* The location a path names once its `..` components are resolved.
RECURSIVE NormFrom(_, _)
NormFrom(cur, p) ==
  IF p = <<>> THEN cur
  ELSE NormFrom(IF Head(p) = ".." THEN Parent(cur) ELSE Append(cur, Head(p)),
                Tail(p))

Normalize(p) == NormFrom(<<>>, p)

\* Path resolution by the operating system: every directory walked through
\* has to exist.
RECURSIVE WalkFrom(_, _, _)
WalkFrom(cur, p, ds) ==
  IF p = <<>> THEN [ok |-> TRUE, path |-> cur]
  ELSE IF cur \notin ds THEN [ok |-> FALSE, path |-> cur]
  ELSE WalkFrom(IF Head(p) = ".." THEN Parent(cur) ELSE Append(cur, Head(p)),
                Tail(p), ds)

Walk(p, ds) == WalkFrom(<<>>, p, ds)

IsDir(p, ds) == Walk(p, ds).ok /\ Walk(p, ds).path \in ds

\* ------------------------------------------------------------- filesystem
Mkdir(p, ds, fs) ==
  IF p = <<>> THEN [kind |-> "Exists", dirs |-> ds, made |-> {}]
  ELSE LET w == Walk(Front(p), ds) IN
    IF ~w.ok \/ w.path \notin ds
    THEN [kind |-> IF w.path \in DOMAIN fs THEN "NotADir" ELSE "NotFound",
          dirs |-> ds, made |-> {}]
    ELSE IF Last(p) = ".." THEN [kind |-> "Exists", dirs |-> ds, made |-> {}]
    ELSE LET target == Append(w.path, Last(p)) IN
      IF target \in ds \/ target \in DOMAIN fs
      THEN [kind |-> "Exists", dirs |-> ds, made |-> {}]
      ELSE [kind |-> "ok", dirs |-> ds \cup {target}, made |-> {target}]

RECURSIVE CreateDirAll(_, _, _)
CreateDirAll(p, ds, fs) ==
  LET m == Mkdir(p, ds, fs) IN
  IF m.kind = "ok" THEN [ok |-> TRUE, dirs |-> m.dirs, made |-> m.made]
  ELSE IF m.kind # "NotFound"
  THEN [ok |-> IsDir(p, ds), dirs |-> ds, made |-> {}]
  ELSE IF p = <<>> THEN [ok |-> FALSE, dirs |-> ds, made |-> {}]
  ELSE LET r == CreateDirAll(Front(p), ds, fs) IN
    IF ~r.ok THEN r
    ELSE LET m2 == Mkdir(p, r.dirs, fs) IN
      IF m2.kind = "ok"
      THEN [ok |-> TRUE, dirs |-> m2.dirs, made |-> r.made \cup m2.made]
      ELSE [ok |-> IsDir(p, r.dirs), dirs |-> r.dirs, made |-> r.made]

Copy(src, dest, ds, fs) ==
  LET ws == Walk(src, ds)
      wt == Walk(dest, ds)
  IN IF ~ws.ok \/ ws.path \notin DOMAIN fs
     THEN [ok |-> FALSE, files |-> fs, made |-> {}]
     ELSE IF ~wt.ok \/ wt.path \in ds
     THEN [ok |-> FALSE, files |-> fs, made |-> {}]
     ELSE [ok |-> TRUE,
           files |-> [q \in DOMAIN fs \cup {wt.path} |->
                        IF q = wt.path THEN fs[ws.path] ELSE fs[q]],
           made |-> {wt.path}]

DropDirs_Leak(ds) == ds

\* Drop of TempDir: the sandbox directory is removed recursively.
DropDirs(ds) == {d \in ds : ~IsPrefix(Sandbox, d)}

DropFiles(fs) == [q \in {x \in DOMAIN fs : ~IsPrefix(Sandbox, x)} |-> fs[q]]

\* ---------------------------------------------------------- child process
\* The argument strings of the modelled commands, parsed as the child does.
ArgPath(s) ==
  CASE s = "/work/f" -> [abs |-> TRUE, comps |-> <<"work", "f">>]
    [] s = "f" -> [abs |-> FALSE, comps |-> <<"f">>]
    [] s = "d/g" -> [abs |-> FALSE, comps |-> <<"d", "g">>]

\* What Command::output() can give for a non-empty command whose working
\* directory is the sandbox.  current_dir only sets the directory relative
\* paths start from: an absolute path is resolved on the host filesystem.
ChildOutcomes(cmd, ds, fs) ==
  CASE cmd[1] = "nosuchprog" ->
         {[spawned |-> FALSE, status |-> 127, stdout |-> <<>>, stderr |-> <<>>]}
    [] cmd[1] = "false" ->
         {[spawned |-> TRUE, status |-> 1, stdout |-> <<>>, stderr |-> <<>>]}
    [] cmd[1] = "cat" ->
         LET a == ArgPath(cmd[2])
             w == Walk(IF a.abs THEN a.comps ELSE Sandbox \o a.comps, ds)
         IN IF w.ok /\ w.path \in DOMAIN fs
            THEN {[spawned |-> TRUE, status |-> 0, stdout |-> fs[w.path],
                   stderr |-> <<>>]}
            ELSE {[spawned |-> TRUE, status |-> 1, stdout |-> <<>>,
                   stderr |-> CatError]}
    [] cmd[1] = "prog" ->
         [spawned : {TRUE}, status : {0, 1}, stdout : ProgOutputs,
          stderr : ProgOutputs]

NoOutput == [spawned |-> FALSE, status |-> 0, stdout |-> <<>>, stderr |-> <<>>]

\* String::from_utf8_lossy on the modelled bytes: an ASCII byte is kept, a
\* byte that is not valid UTF-8 becomes U+FFFD.
Lossy(bytes) ==
  [k \in 1..Len(bytes) |-> IF bytes[k] < 128 THEN bytes[k] ELSE ReplacementChar]

\* ---------------------------------------------------------------- results
\* Result<()>: Ok carries the unit value (an empty payload); Err carries the
\* anyhow message, modelled by the tag of its format string, the path it
\* quotes and the text it embeds.
NoResult == [kind |-> "None", tag |-> "", path |-> <<>>, text |-> <<>>,
             payload |-> <<>>]

Ok == [kind |-> "Ok", tag |-> "", path |-> <<>>, text |-> <<>>,
       payload |-> <<>>]

Err(tag, path, text) ==
  [kind |-> "Err", tag |-> tag, path |-> path, text |-> text, payload |-> <<>>]

Panicked == [kind |-> "Panic", tag |-> "IndexOutOfBounds", path |-> <<>>,
             text |-> <<>>, payload |-> <<>>]

StagingFailures == {"NotWithinWorkingDir", "CreateDirFailed", "CopyFailed"}

\* ---------------------------------------------------------------- staging
\* One iteration of the loop over files.
StageOne(file, wd, ds, fs) ==
  LET sp == StripPrefix(file, wd) IN
  IF ~sp.ok
  THEN [ok |-> FALSE, tag |-> "NotWithinWorkingDir", dirs |-> ds,
        files |-> fs, made |-> {}]
  ELSE LET dest == Sandbox \o sp.rel
           cd == CreateDirAll(Front(dest), ds, fs)
       IN IF ~cd.ok
          THEN [ok |-> FALSE, tag |-> "CreateDirFailed", dirs |-> cd.dirs,
                files |-> fs, made |-> cd.made]
          ELSE LET cp == Copy(file, dest, cd.dirs, fs) IN
            IF ~cp.ok
            THEN [ok |-> FALSE, tag |-> "CopyFailed", dirs |-> cd.dirs,
                  files |-> fs, made |-> cd.made]
            ELSE [ok |-> TRUE, tag |-> "", dirs |-> cd.dirs,
                  files |-> cp.files, made |-> cd.made \cup cp.made]

LoopDone_OffByOne == i >= Len(files)

\* The for loop has gone through every element of files.
LoopDone == i > Len(files)

Classify_StatusIgnored(o) ==
  [result |-> Ok, printed |-> <<Lossy(o.stdout)>>]

\* if output.status.success() { println!; Ok(()) } else { bail!(stderr) }
Classify(o) ==
  IF o.status = 0
  THEN [result |-> Ok, printed |-> <<Lossy(o.stdout)>>]
  ELSE [result |-> Err("CommandFailed", <<>>,
                       CommandFailedPrefix \o Lossy(o.stderr)),
        printed |-> <<>>]

\* ------------------------------------------------------------------ state
FileLists == UNION {[1..n -> FilePaths] : n \in 0..MaxFiles}

Init ==
  /\ pc = "idle"
  /\ command = <<>>
  /\ files = <<>>
  /\ working_dir = <<"work">>
  /\ i = 1
  /\ dirs = HostDirs
  /\ fsFiles = HostFiles
  /\ staged = <<>>
  /\ written = {}
  /\ launched = FALSE
  /\ out = NoOutput
  /\ printed = <<>>
  /\ result = NoResult

\* execute is entered: TempDir::new() creates the sandbox or fails.
Begin ==
  /\ pc = "idle"
  /\ \E c \in Commands, fl \in FileLists, wd \in WorkDirs, created \in BOOLEAN :
       /\ command' = c
       /\ files' = fl
       /\ working_dir' = wd
       /\ IF created
          THEN /\ dirs' = dirs \cup {Sandbox}
               /\ written' = written \cup {Sandbox}
               /\ pc' = "stage"
               /\ result' = result
          ELSE /\ dirs' = dirs
               /\ written' = written
               /\ pc' = "done"
               /\ result' = Err("TempDirFailed", <<>>, <<>>)
  /\ UNCHANGED <<i, fsFiles, staged, launched, out, printed>>

\* One iteration of the loop; a failure returns through `?`, which drops
\* temp_dir.
StageFile ==
  /\ pc = "stage"
  /\ ~LoopDone
  /\ LET s == StageOne(files[i], working_dir, dirs, fsFiles) IN
       /\ written' = written \cup s.made
       /\ IF s.ok
          THEN /\ dirs' = s.dirs
               /\ fsFiles' = s.files
               /\ staged' = Append(staged, files[i])
               /\ i' = i + 1
               /\ pc' = "stage"
               /\ result' = result
          ELSE /\ dirs' = DropDirs(s.dirs)
               /\ fsFiles' = DropFiles(s.files)
               /\ staged' = staged
               /\ i' = i
               /\ pc' = "done"
               /\ result' = Err(s.tag, files[i], <<>>)
  /\ UNCHANGED <<command, files, working_dir, launched, out, printed>>

\* Command::new(&command[0]) ... cmd.output(): indexing an empty command
\* panics (the unwinding drops temp_dir); a launch failure returns through
\* `?`; otherwise the child runs to completion.
Launch ==
  /\ pc = "stage"
  /\ LoopDone
  /\ IF command = <<>>
     THEN /\ pc' = "panicked"
          /\ result' = Panicked
          /\ dirs' = DropDirs(dirs)
          /\ fsFiles' = DropFiles(fsFiles)
          /\ UNCHANGED <<launched, out>>
     ELSE \E o \in ChildOutcomes(command, dirs, fsFiles) :
            IF o.spawned
            THEN /\ pc' = "classify"
                 /\ launched' = TRUE
                 /\ out' = o
                 /\ UNCHANGED <<result, dirs, fsFiles>>
            ELSE /\ pc' = "done"
                 /\ result' = Err("LaunchFailed", <<>>, <<>>)
                 /\ dirs' = DropDirs(dirs)
                 /\ fsFiles' = DropFiles(fsFiles)
                 /\ UNCHANGED <<launched, out>>
  /\ UNCHANGED <<command, files, working_dir, i, staged, written, printed>>

\* The exit status is classified and execute returns, dropping temp_dir.
Return ==
  /\ pc = "classify"
  /\ result' = Classify(out).result
  /\ printed' = Classify(out).printed
  /\ dirs' = DropDirs(dirs)
  /\ fsFiles' = DropFiles(fsFiles)
  /\ pc' = "done"
  /\ UNCHANGED <<command, files, working_dir, i, staged, written, launched, out>>

Next == Begin \/ StageFile \/ Launch \/ Return

Spec == Init /\ [][Next]_vars

TypeOK ==
  /\ pc \in {"idle", "stage", "classify", "done", "panicked"}
  /\ command \in Commands
  /\ files \in FileLists
  /\ working_dir \in WorkDirs
  /\ i \in 1..(Len(files) + 1)
  /\ launched \in BOOLEAN
  /\ result.kind \in {"None", "Ok", "Err", "Panic"}

\* ----------------------------------------------------------------- claims
Terminal == {"done", "panicked"}

\* execute has finished a call in which the temporary directory was created
Finished == pc \in Terminal /\ Sandbox \in written

\* The file named by p is located at or below root once p is resolved.
Under(p, root) == IsPrefix(root, Normalize(p))

Readable(p) ==
  Walk(p, HostDirs).ok /\ Walk(p, HostDirs).path \in DOMAIN HostFiles

\* The path inside the sandbox that mirrors the location of p under root.
Mirror(p, root) ==
  Sandbox \o SubSeq(Normalize(p), Len(root) + 1, Len(Normalize(p)))

SandboxFiles == {q \in DOMAIN fsFiles : IsPrefix(Sandbox, q)}

Contains(s, t) ==
  \E k \in 0..(Len(s) - Len(t)) : SubSeq(s, k + 1, k + Len(t)) = t

\* C1: whenever some element of files is not located under
\* workingDirectoryRoot, the finished call has returned a failure that
\* reports a path containment violation for such a file (never success,
\* never another outcome).
C1_ViolationAlwaysReported ==
  (Finished /\ \E k \in 1..Len(files) : ~Under(files[k], working_dir))
    => /\ result.kind = "Err"
       /\ result.tag = "NotWithinWorkingDir"
       /\ ~Under(result.path, working_dir)

\* C2: with an empty files list, the command cat <absolute host path of a
\* file under workingDirectoryRoot> fails, the file not having been staged.
C2_UnstagedFileInvisible ==
  (Finished /\ files = <<>> /\ working_dir = <<"work">>
     /\ command = <<"cat", "/work/f">>)
    => result.kind = "Err"

\* C3: once execute has returned, on whatever path, the sandbox directory
\* and everything below it no longer exist.
C3_SandboxRemoved ==
  pc = "done"
    => /\ \A d \in dirs : ~IsPrefix(Sandbox, d)
       /\ SandboxFiles = {}

C3_Witness ==
  /\ pc = "done"
  /\ Sandbox \in written
  /\ <<"work", "d", "g">> \in Range(staged)
  /\ result.tag = "CommandFailed"

\* C4: a file path that textually begins with workingDirectoryRoot but
\* resolves to a location that is not below it is never staged, and the
\* iteration that handles it reports a path containment violation.
C4_ResolvedContainment ==
  \A k \in 1..Len(files) :
    (IsPrefix(working_dir, files[k]) /\ ~Under(files[k], working_dir))
      => /\ ~(k < i)
         /\ (k = i /\ pc = "done" /\ result.tag \in StagingFailures)
              => result.tag = "NotWithinWorkingDir"

\* C5: every directory created and every file written by execute lies in the
\* subtree of the sandbox directory.
C5_WritesConfined == \A q \in written : IsPrefix(Sandbox, q)

\* C6: the child process is launched only after every element of files has
\* been staged, in input order, and never in a call whose staging failed.
C6_LaunchAfterStaging ==
  /\ Len(staged) <= Len(files)
  /\ staged = SubSeq(files, 1, Len(staged))
  /\ launched => staged = files
  /\ result.tag \in StagingFailures => ~launched

C6_Witness == launched /\ Len(files) >= 2 /\ files[1] # files[2]

\* C7: when every listed file lies under workingDirectoryRoot and is
\* readable, at the moment of the launch the sandbox holds, for each listed
\* file, an identical copy at the mirrored relative path, and no other file.
C7_SandboxMirrorsFiles ==
  (pc = "stage" /\ i > Len(files)
     /\ \A k \in 1..Len(files) :
          Under(files[k], working_dir) /\ Readable(files[k]))
    => /\ \A k \in 1..Len(files) :
            /\ Mirror(files[k], working_dir) \in SandboxFiles
            /\ fsFiles[Mirror(files[k], working_dir)]
                 = HostFiles[Normalize(files[k])]
       /\ \A q \in SandboxFiles :
            \E k \in 1..Len(files) : q = Mirror(files[k], working_dir)

\* C8: a call with an empty command, whose files were all staged, returns an
\* InvalidCommand failure as a result value.
C8_EmptyCommandIsError ==
  (Finished /\ command = <<>> /\ staged = files)
    => /\ pc = "done"
       /\ result.kind = "Err"
       /\ result.tag = "InvalidCommand"

C10_NothingStagedOnViolation ==
  (pc \in Terminal
     /\ \/ result.tag = "NotWithinWorkingDir"
        \/ command = <<>> /\ result.tag \in {"InvalidCommand", "IndexOutOfBounds"})
    => staged = <<>>
====
